---- MODULE Spec2Model ----
(***************************************************************************)
(* A model of library/bigip_security_address_list.py: the reconciliation   *)
(* of a declared firewall address list against the list a BIG-IP holds.    *)
(*                                                                         *)
(* Python values are modelled as follows.  A str is a TLA+ string; a list  *)
(* is a sequence; an optional value is a sequence of length at most one    *)
(* (None is <<>>, a value v is <<v>>); a device entry {"name": s} is the   *)
(* string s, and a list reference {"name": n, "partition": p} is a record. *)
(* A property that raises is modelled by a record [err |-> kind] and one   *)
(* that returns by [err |-> "", val |-> optional value].                   *)
(***************************************************************************)
EXTENDS Integers, Sequences, FiniteSets, TLC

None == <<>>
Some(v) == <<v>>
IsNone(o) == o = <<>>
Val(o) == o[1]

\* The messages of the F5ModuleError the module raises, and the exception the
\* device client raises.
InvalidAddress == "Address must be either an IPv4 or IPv6 address"
MixedIPVersion == "When specifying a range, IP addresses must be of the same type; IPv4 or IPv6."
InvalidHostname == "The hostname looks invalid."
DeletionFailed == "Failed to delete the resource."
DeviceError == "iControlUnexpectedHTTPError"

Ok(o) == [err |-> "", val |-> o]
Raise(kind) == [err |-> kind, val |-> None]

(***************************************************************************)
(* Strings.  Python compares and sorts str values by code point; Alphabet  *)
(* lists the characters the model uses in code-point order.                *)
(***************************************************************************)
Alphabet == " -./0123456789:ABCDEFGHIJKLMNOPQRSTUVWXYZ_abcdefghijklmnopqrstuvwxyz"

CharAt(s, i) == SubSeq(s, i, i)

Ord(c) == CHOOSE i \in 1..Len(Alphabet) : CharAt(Alphabet, i) = c

RECURSIVE StrLessFrom(_, _, _)
StrLessFrom(a, b, i) ==
    IF i > Len(b) THEN FALSE
    ELSE IF i > Len(a) THEN TRUE
    ELSE IF CharAt(a, i) = CharAt(b, i) THEN StrLessFrom(a, b, i + 1)
    ELSE Ord(CharAt(a, i)) < Ord(CharAt(b, i))

\* a < b for two str values
StrLess(a, b) == StrLessFrom(a, b, 1)

RECURSIVE InsertSorted(_, _)
InsertSorted(x, s) ==
    IF s = <<>> THEN <<x>>
    ELSE IF StrLess(Head(s), x) THEN <<Head(s)>> \o InsertSorted(x, Tail(s))
    ELSE <<x>> \o s

RECURSIVE sorted(_)
\* sorted(list of str)
sorted(s) == IF s = <<>> THEN <<>> ELSE InsertSorted(Head(s), sorted(Tail(s)))

RECURSIVE IndexFrom(_, _, _)
\* the first index >= i of character c in s, or 0
IndexFrom(s, c, i) ==
    IF i > Len(s) THEN 0
    ELSE IF CharAt(s, i) = c THEN i
    ELSE IndexFrom(s, c, i + 1)

\* c in s
Contains(s, c) == IndexFrom(s, c, 1) # 0

RECURSIVE split(_, _)
\* the parts of s, whose first separator c is at index i (0: there is none)
SplitAt(s, c, i) ==
    IF i = 0 THEN <<s>>
    ELSE <<SubSeq(s, 1, i - 1)>> \o split(SubSeq(s, i + 1, Len(s)), c)

\* s.split(c) for a one-character separator c
split(s, c) == SplitAt(s, c, IndexFrom(s, c, 1))

RECURSIVE lstrip(_, _)
lstrip(s, c) ==
    IF Len(s) > 0 /\ CharAt(s, 1) = c THEN lstrip(SubSeq(s, 2, Len(s)), c) ELSE s

RECURSIVE rstrip(_, _)
\* s.rstrip(c)
rstrip(s, c) ==
    IF Len(s) > 0 /\ CharAt(s, Len(s)) = c THEN rstrip(SubSeq(s, 1, Len(s) - 1), c) ELSE s

\* s.strip(): the model's only whitespace character is the space
strip(s) == rstrip(lstrip(s, " "), " ")

\* s.startswith(c)
startswith(s, c) == Len(s) > 0 /\ CharAt(s, 1) = c

(***************************************************************************)
(* netaddr.IPAddress: the addresses the module parses, compares and prints.*)
(* An address is its version and its words (4 octets, or 8 groups of 16    *)
(* bits), most significant first, so that the order of two addresses of    *)
(* one version is the lexicographic order of their words.  IPv4 is read in *)
(* dotted-quad notation and IPv6 in colon-hexadecimal notation with at     *)
(* most one "::".                                                          *)
(***************************************************************************)
Digits == "0123456789"
HexLower == "0123456789abcdef"
HexUpper == "0123456789ABCDEF"

DigitValue(c, digits) ==
    IF \E i \in 1..Len(digits) : CharAt(digits, i) = c
    THEN (CHOOSE i \in 1..Len(digits) : CharAt(digits, i) = c) - 1
    ELSE -1

HexValue(c) == IF DigitValue(c, HexLower) >= 0 THEN DigitValue(c, HexLower)
               ELSE DigitValue(c, HexUpper)

RECURSIVE ParseNumber(_, _, _)
\* the numeral goes on with a digit of value d (-1: not a digit) and then rest
ParseDigit(d, rest, base, acc) ==
    IF d < 0 THEN -1 ELSE ParseNumber(rest, base, acc * base + d)

\* the value of numeral s in the given base, or -1 when s is not a numeral
ParseNumber(s, base, acc) ==
    IF s = "" THEN acc
    ELSE ParseDigit(IF base = 10 THEN DigitValue(Head(s), Digits) ELSE HexValue(Head(s)),
                    Tail(s), base, acc)

ParseOctet(s) ==
    IF Len(s) \in 1..3 THEN ParseNumber(s, 10, 0) ELSE -1

ParseGroup(s) ==
    IF Len(s) \in 1..4 THEN ParseNumber(s, 16, 0) ELSE -1

Zeros(n) == [i \in 1..n |-> 0]

BadAddress == [ok |-> FALSE, version |-> 0, words |-> <<>>]

Octets(parts) == [i \in 1..Len(parts) |-> ParseOctet(parts[i])]

IPv4Of(words) ==
    IF Len(words) = 4 /\ \A i \in 1..4 : words[i] \in 0..255
    THEN [ok |-> TRUE, version |-> 4, words |-> words]
    ELSE BadAddress

ParseIPv4(s) == IPv4Of(Octets(split(s, ".")))

RECURSIVE DoubleColonAt(_, _)
\* the first index >= i at which "::" starts in s, or 0
DoubleColonAt(s, i) ==
    IF i + 1 > Len(s) THEN 0
    ELSE IF SubSeq(s, i, i + 1) = "::" THEN i
    ELSE DoubleColonAt(s, i + 1)

\* the values of the groups of s, a run of groups separated by colons
Groups(s) ==
    IF s = "" THEN <<>>
    ELSE [i \in 1..Len(split(s, ":")) |-> ParseGroup(split(s, ":")[i])]

\* the address of the groups lw and rw, left and right of a "::" when d # 0
IPv6Of(d, lw, rw) ==
    IF /\ \A i \in 1..Len(lw) : lw[i] >= 0
       /\ \A i \in 1..Len(rw) : rw[i] >= 0
       /\ IF d = 0 THEN Len(lw) + Len(rw) = 8 ELSE Len(lw) + Len(rw) <= 7
    THEN [ok |-> TRUE, version |-> 6,
          words |-> lw \o Zeros(8 - (Len(lw) + Len(rw))) \o rw]
    ELSE BadAddress

IPv6At(s, d) ==
    IF d = 0 THEN IPv6Of(0, Groups(s), <<>>)
    ELSE IPv6Of(d, Groups(SubSeq(s, 1, d - 1)), Groups(SubSeq(s, d + 2, Len(s))))

ParseIPv6(s) == IPv6At(s, DoubleColonAt(s, 1))

\* netaddr.IPAddress(s); ok is FALSE where netaddr raises AddrFormatError
IPAddress(s) ==
    IF Contains(s, ":") THEN ParseIPv6(s) ELSE ParseIPv4(s)

RECURSIVE WordsLess(_, _)
WordsLess(a, b) ==
    IF a = <<>> \/ b = <<>> THEN FALSE
    ELSE IF Head(a) = Head(b) THEN WordsLess(Tail(a), Tail(b))
    ELSE Head(a) < Head(b)

\* a > b for two IPAddress values
IPGreater(a, b) ==
    \/ a.version > b.version
    \/ a.version = b.version /\ WordsLess(b.words, a.words)

RECURSIVE Join(_, _)
\* sep.join(parts)
Join(parts, sep) ==
    IF parts = <<>> THEN ""
    ELSE IF Len(parts) = 1 THEN Head(parts)
    ELSE Head(parts) \o sep \o Join(Tail(parts), sep)

RECURSIVE Hex(_)
Hex(n) == IF n < 16 THEN CharAt(HexLower, n + 1)
          ELSE Hex(n \div 16) \o CharAt(HexLower, (n % 16) + 1)

RECURSIVE ZeroRun(_, _)
\* the number of consecutive zero words of w starting at index i
ZeroRun(w, i) == IF i > Len(w) \/ w[i] # 0 THEN 0 ELSE 1 + ZeroRun(w, i + 1)

\* the start of the longest run of zero words, the leftmost of them
LongestZeroRun(w) ==
    CHOOSE i \in 1..8 :
        \A j \in 1..8 : \/ ZeroRun(w, j) < ZeroRun(w, i)
                        \/ ZeroRun(w, j) = ZeroRun(w, i) /\ i <= j

\* the groups in hexadecimal, a run of two or more zero groups written "::"
Compressed(hex, best, run) ==
    IF run < 2 THEN Join(hex, ":")
    ELSE Join(SubSeq(hex, 1, best - 1), ":") \o "::"
         \o Join(SubSeq(hex, best + run, 8), ":")

FormatFrom(w, best) == Compressed([i \in 1..8 |-> Hex(w[i])], best, ZeroRun(w, best))

FormatIPv6(w) == FormatFrom(w, LongestZeroRun(w))

\* str(address)
IPStr(a) ==
    IF a.version = 4 THEN Join([i \in 1..4 |-> ToString(a.words[i])], ".")
    ELSE FormatIPv6(a.words)

(***************************************************************************)
(* Parameters: the name maps and the field lists of the module.            *)
(***************************************************************************)
api_attributes == <<"addressLists", "addresses", "description", "fqdns", "geo">>

returnables == <<"addresses", "address_ranges", "address_lists", "description",
                 "fqdns", "geo_locations">>

updatables == <<"addresses", "address_ranges", "address_lists", "description",
                "fqdns", "geo_locations">>

\* a parameter object none of whose values is set
NoValues == [addresses |-> None, address_ranges |-> None, address_lists |-> None,
             description |-> None, fqdns |-> None, geo_locations |-> None]

\* a resource none of whose attributes is set
NoAttrs == [addressLists |-> None, addresses |-> None, description |-> None,
            fqdns |-> None, geo |-> None]

\* Parameters._fqdn_name
fqdn_name(partition, value) ==
    IF ~startswith(value, "/") THEN "/" \o partition \o "/" \o value ELSE value

\* the first raising entry of a sequence of results, or 0
FirstRaise(rs) ==
    IF \E i \in 1..Len(rs) : rs[i].err # ""
    THEN CHOOSE i \in 1..Len(rs) : rs[i].err # "" /\ \A j \in 1..(i - 1) : rs[j].err = ""
    ELSE 0

\* a loop over entries: the list of the values, or the first exception, at k
GatherAt(rs, k) ==
    IF k # 0 THEN Raise(rs[k].err) ELSE Ok([i \in 1..Len(rs) |-> rs[i].val])

Gather(rs) == GatherAt(rs, FirstRaise(rs))

\* result = sorted(result); return result
ReturnSorted(r) == IF r.err # "" THEN r ELSE Ok(Some(sorted(r.val)))

ReturnList(r) == IF r.err # "" THEN r ELSE Ok(Some(r.val))

\* the values fetched before index k, where a property raises (0: none does)
FetchedBefore(rs, k) ==
    [i \in 1..Len(rs) |-> IF k = 0 \/ i < k THEN rs[i].val ELSE None]

ValuesOf(vals) ==
    [addresses |-> vals[1], address_ranges |-> vals[2], address_lists |-> vals[3],
     description |-> vals[4], fqdns |-> vals[5], geo_locations |-> vals[6]]

\* Parameters.to_return / Changes.to_return over the results of the six
\* returnables in order: the values that are not None, or, when a property
\* raises, the values fetched before it
to_return(rs) == ValuesOf(FetchedBefore(rs, FirstRaise(rs)))

(***************************************************************************)
(* ApiParameters: the live state, read from the attributes of the resource.*)
(***************************************************************************)
\* ApiParameters(params=resource.attrs): the attributes under their field names
ApiParameters(attrs) ==
    [addresses |-> attrs.addresses, address_ranges |-> None,
     address_lists |-> attrs.addressLists, description |-> attrs.description,
     fqdns |-> attrs.fqdns, geo_locations |-> attrs.geo]

Stripped(names) == [i \in 1..Len(names) |-> strip(names[i])]

ApiParameters_address_ranges(v) ==
    IF IsNone(v.addresses) THEN None
    ELSE Some(sorted(Stripped(SelectSeq(Val(v.addresses), LAMBDA n : Contains(n, "-")))))

\* '/{0}/{1}'.format(x['partition'], x['name']) for each reference
FullPaths(refs) ==
    [i \in 1..Len(refs) |-> "/" \o refs[i].partition \o "/" \o refs[i].name]

ApiParameters_address_lists(v) ==
    IF IsNone(v.address_lists) THEN None
    ELSE Some(sorted(FullPaths(Val(v.address_lists))))

ApiParameters_addresses(v) ==
    IF IsNone(v.addresses) THEN None
    ELSE Some(sorted(SelectSeq(Val(v.addresses), LAMBDA n : ~Contains(n, "-"))))

ApiParameters_fqdns(v) ==
    IF IsNone(v.fqdns) THEN None ELSE Some(sorted(Val(v.fqdns)))

ApiParameters_geo_locations(v) ==
    IF IsNone(v.geo_locations) THEN None ELSE Some(sorted(Val(v.geo_locations)))

(***************************************************************************)
(* ModuleParameters: the desired state, canonicalized from the arguments.  *)
(***************************************************************************)
\* ModuleParameters.__init__: self.country_iso_map, as pairs of name and code
country_iso_map ==
    <<<<"Afghanistan", "AF">>, <<"Albania", "AL">>, <<"Algeria", "DZ">>,
      <<"American Samoa", "AS">>, <<"Andorra", "AD">>, <<"Angola", "AO">>,
      <<"Anguilla", "AI">>, <<"Antarctica", "AQ">>,
      <<"Antigua and Barbuda", "AG">>, <<"Argentina", "AR">>,
      <<"Armenia", "AM">>, <<"Aruba", "AW">>, <<"Australia", "AU">>,
      <<"Austria", "AT">>, <<"Azerbaijan", "AZ">>, <<"Bahamas", "BS">>,
      <<"Bahrain", "BH">>, <<"Bangladesh", "BD">>, <<"Barbados", "BB">>,
      <<"Belarus", "BY">>, <<"Belgium", "BE">>, <<"Belize", "BZ">>,
      <<"Benin", "BJ">>, <<"Bermuda", "BM">>, <<"Bhutan", "BT">>,
      <<"Bolivia", "BO">>, <<"Bosnia and Herzegovina", "BA">>,
      <<"Botswana", "BW">>, <<"Brazil", "BR">>, <<"Brunei", "BN">>,
      <<"Bulgaria", "BG">>, <<"Burkina Faso", "BF">>, <<"Burundi", "BI">>,
      <<"Cameroon", "CM">>, <<"Canada", "CA">>, <<"Cape Verde", "CV">>,
      <<"Central African Republic", "CF">>, <<"Chile", "CL">>,
      <<"China", "CN">>, <<"Christmas Island", "CX">>,
      <<"Cocos Islands", "CC">>, <<"Colombia", "CO">>,
      <<"Cook Islands", "CK">>, <<"Costa Rica", "CR">>, <<"Cuba", "CU">>,
      <<"Curacao", "CW">>, <<"Cyprus", "CY">>, <<"Czech Republic", "CZ">>,
      <<"Democratic Republic of the Congo", "CD">>, <<"Denmark", "DK">>,
      <<"Djibouti", "DJ">>, <<"Dominica", "DM">>,
      <<"Dominican Republic", "DO">>, <<"Ecuador", "EC">>, <<"Egypt", "EG">>,
      <<"Eritrea", "ER">>, <<"Estonia", "EE">>, <<"Ethiopia", "ET">>,
      <<"Falkland Islands", "FK">>, <<"Faroe Islands", "FO">>,
      <<"Fiji", "FJ">>, <<"Finland", "FI">>, <<"France", "FR">>,
      <<"French Polynesia", "PF">>, <<"Gabon", "GA">>, <<"Gambia", "GM">>,
      <<"Georgia", "GE">>, <<"Germany", "DE">>, <<"Ghana", "GH">>,
      <<"Gilbraltar", "GI">>, <<"Greece", "GR">>, <<"Greenland", "GL">>,
      <<"Grenada", "GD">>, <<"Guam", "GU">>, <<"Guatemala", "GT">>,
      <<"Guernsey", "GG">>, <<"Guinea", "GN">>, <<"Guinea-Bissau", "GW">>,
      <<"Guyana", "GY">>, <<"Haiti", "HT">>, <<"Honduras", "HN">>,
      <<"Hong Kong", "HK">>, <<"Hungary", "HU">>, <<"Iceland", "IS">>,
      <<"India", "IN">>, <<"Indonesia", "ID">>, <<"Iran", "IR">>,
      <<"Iraq", "IQ">>, <<"Ireland", "IE">>, <<"Isle of Man", "IM">>,
      <<"Israel", "IL">>, <<"Italy", "IT">>, <<"Ivory Coast", "CI">>,
      <<"Jamaica", "JM">>, <<"Japan", "JP">>, <<"Jersey", "JE">>,
      <<"Jordan", "JO">>, <<"Kazakhstan", "KZ">>, <<"Laos", "LA">>,
      <<"Latvia", "LV">>, <<"Lebanon", "LB">>, <<"Lesotho", "LS">>,
      <<"Liberia", "LR">>, <<"Libya", "LY">>, <<"Liechtenstein", "LI">>,
      <<"Lithuania", "LT">>, <<"Luxembourg", "LU">>, <<"Macau", "MO">>,
      <<"Macedonia", "MK">>, <<"Madagascar", "MG">>, <<"Malawi", "MW">>,
      <<"Malaysia", "MY">>, <<"Maldives", "MV">>, <<"Mali", "ML">>,
      <<"Malta", "MT">>, <<"Marshall Islands", "MH">>,
      <<"Mauritania", "MR">>, <<"Mauritius", "MU">>, <<"Mayotte", "YT">>,
      <<"Mexico", "MX">>, <<"Micronesia", "FM">>, <<"Moldova", "MD">>,
      <<"Monaco", "MC">>, <<"Mongolia", "MN">>, <<"Montenegro", "ME">>,
      <<"Montserrat", "MS">>, <<"Morocco", "MA">>, <<"Mozambique", "MZ">>,
      <<"Myanmar", "MM">>, <<"Namibia", "NA">>, <<"Nauru", "NR">>,
      <<"Nepal", "NP">>, <<"Netherlands", "NL">>,
      <<"Netherlands Antilles", "AN">>, <<"New Caledonia", "NC">>,
      <<"New Zealand", "NZ">>, <<"Nicaragua", "NI">>, <<"Niger", "NE">>,
      <<"Nigeria", "NG">>, <<"Niue", "NU">>, <<"North Korea", "KP">>,
      <<"Northern Mariana Islands", "MP">>, <<"Norway", "NO">>,
      <<"Oman", "OM">>, <<"Pakistan", "PK">>, <<"Palau", "PW">>,
      <<"Palestine", "PS">>, <<"Panama", "PA">>,
      <<"Papua New Guinea", "PG">>, <<"Paraguay", "PY">>, <<"Peru", "PE">>,
      <<"Philippines", "PH">>, <<"Pitcairn", "PN">>, <<"Poland", "PL">>,
      <<"Portugal", "PT">>, <<"Puerto Rico", "PR">>, <<"Qatar", "QA">>,
      <<"Republic of the Congo", "CG">>, <<"Reunion", "RE">>,
      <<"Romania", "RO">>, <<"Russia", "RU">>, <<"Rwanda", "RW">>,
      <<"Saint Barthelemy", "BL">>, <<"Saint Helena", "SH">>,
      <<"Saint Kitts and Nevis", "KN">>, <<"Saint Lucia", "LC">>,
      <<"Saint Martin", "MF">>, <<"Saint Pierre and Miquelon", "PM">>,
      <<"Saint Vincent and the Grenadines", "VC">>, <<"Samoa", "WS">>,
      <<"San Marino", "SM">>, <<"Sao Tome and Principe", "ST">>,
      <<"Saudi Arabia", "SA">>, <<"Senegal", "SN">>, <<"Serbia", "RS">>,
      <<"Seychelles", "SC">>, <<"Sierra Leone", "SL">>,
      <<"Singapore", "SG">>, <<"Sint Maarten", "SX">>, <<"Slovakia", "SK">>,
      <<"Slovenia", "SI">>, <<"Solomon Islands", "SB">>, <<"Somalia", "SO">>,
      <<"South Africa", "ZA">>, <<"South Korea", "KR">>,
      <<"South Sudan", "SS">>, <<"Spain", "ES">>, <<"Sri Lanka", "LK">>,
      <<"Sudan", "SD">>, <<"Suriname", "SR">>,
      <<"Svalbard and Jan Mayen", "SJ">>, <<"Swaziland", "SZ">>,
      <<"Sweden", "SE">>, <<"Switzerland", "CH">>, <<"Syria", "SY">>,
      <<"Taiwan", "TW">>, <<"Tajikstan", "TJ">>, <<"Tanzania", "TZ">>,
      <<"Thailand", "TH">>, <<"Togo", "TG">>, <<"Tokelau", "TK">>,
      <<"Tonga", "TO">>, <<"Trinidad and Tobago", "TT">>,
      <<"Tunisia", "TN">>, <<"Turkey", "TR">>, <<"Turkmenistan", "TM">>,
      <<"Turks and Caicos Islands", "TC">>, <<"Tuvalu", "TV">>,
      <<"U.S. Virgin Islands", "VI">>, <<"Uganda", "UG">>,
      <<"Ukraine", "UA">>, <<"United Arab Emirates", "AE">>,
      <<"United Kingdom", "GB">>, <<"United States", "US">>,
      <<"Uruguay", "UY">>, <<"Uzbekistan", "UZ">>, <<"Vanuatu", "VU">>,
      <<"Vatican", "VA">>, <<"Venezuela", "VE">>, <<"Vietnam", "VN">>,
      <<"Wallis and Futuna", "WF">>, <<"Western Sahara", "EH">>,
      <<"Yemen", "YE">>, <<"Zambia", "ZM">>, <<"Zimbabwe", "ZW">>>>

\* self.choices_iso_codes
choices_iso_codes == {country_iso_map[i][2] : i \in 1..Len(country_iso_map)}

LDH == "ABCDEFGHIJKLMNOPQRSTUVWXYZabcdefghijklmnopqrstuvwxyz0123456789-"

IsLDH(c) == \E i \in 1..Len(LDH) : CharAt(LDH, i) = c

\* re.match(r'(?!-)[A-Z0-9-]{1,63}(?<!-)$', label, re.IGNORECASE)
allowed_match(label) ==
    \E k \in 1..63 :
        /\ k <= Len(label)
        /\ \A i \in 1..k : IsLDH(CharAt(label, i))
        /\ CharAt(label, 1) # "-"
        /\ CharAt(label, k) # "-"
        /\ \/ k = Len(label)
           \/ k + 1 = Len(label) /\ CharAt(label, k + 1) = "\n"

\* all(allowed.match(x) for x in labels)
AllAllowed(labels) == \A i \in 1..Len(labels) : allowed_match(labels[i])

is_valid_hostname(host) ==
    IF Len(host) > 255 THEN FALSE
    ELSE AllAllowed(split(rstrip(host, "."), "."))

\* AddressesOf without the sort
AddressesOf_Unsorted(xs) ==
    IF \E i \in 1..Len(xs) : ~IPAddress(xs[i]).ok
    THEN Raise(InvalidAddress)
    ELSE Ok(Some(xs))

AddressesOf(xs) ==
    IF \E i \in 1..Len(xs) : ~IPAddress(xs[i]).ok
    THEN Raise(InvalidAddress)
    ELSE Ok(Some(sorted(xs)))

ModuleParameters_addresses(v) ==
    IF IsNone(v.addresses) THEN Ok(None) ELSE AddressesOf(Val(v.addresses))

\* RangeOf without the swap of start and stop
RangeOf_AsGiven(start, stop) ==
    IF ~start.ok \/ ~stop.ok THEN Raise("AddrFormatError")
    ELSE IF start.version # stop.version THEN Raise(MixedIPVersion)
    ELSE Ok(IPStr(start) \o "-" \o IPStr(stop))

\* the range of two parsed addresses
RangeOf(start, stop) ==
    IF ~start.ok \/ ~stop.ok THEN Raise("AddrFormatError")
    ELSE IF start.version # stop.version THEN Raise(MixedIPVersion)
    ELSE IF IPGreater(start, stop) THEN Ok(IPStr(stop) \o "-" \o IPStr(start))
    ELSE Ok(IPStr(start) \o "-" \o IPStr(stop))

\* start, stop = parts
RangeOfParts(parts) ==
    IF Len(parts) # 2 THEN Raise("ValueError")
    ELSE RangeOf(IPAddress(strip(parts[1])), IPAddress(strip(parts[2])))

\* one pass of the loop of ModuleParameters.address_ranges
RangeItem(address_range) == RangeOfParts(split(address_range, "-"))

\* the loop over the entries and the sort that ends it
NormalizeRanges(xs) ==
    ReturnSorted(Gather([i \in 1..Len(xs) |-> RangeItem(xs[i])]))

ModuleParameters_address_ranges(v) ==
    IF IsNone(v.address_ranges) THEN Ok(None)
    ELSE NormalizeRanges(Val(v.address_ranges))

FqdnNames(partition, xs) == [i \in 1..Len(xs) |-> fqdn_name(partition, xs[i])]

ModuleParameters_address_lists(v) ==
    IF IsNone(v.address_lists) THEN Ok(None)
    ELSE Ok(Some(sorted(FqdnNames(v.partition, Val(v.address_lists)))))

FqdnsOf(xs) ==
    IF \E i \in 1..Len(xs) : ~is_valid_hostname(xs[i])
    THEN Raise(InvalidHostname)
    ELSE Ok(Some(sorted(xs)))

ModuleParameters_fqdns(v) ==
    IF IsNone(v.fqdns) THEN Ok(None) ELSE FqdnsOf(Val(v.fqdns))

GeoItem(g) ==
    IF ~IsNone(g.region) /\ strip(Val(g.region)) # ""
    THEN g.country \o ":" \o Val(g.region)
    ELSE g.country

GeoItems(xs) == [i \in 1..Len(xs) |-> GeoItem(xs[i])]

ModuleParameters_geo_locations(v) ==
    IF IsNone(v.geo_locations) THEN Ok(None)
    ELSE Ok(Some(sorted(GeoItems(Val(v.geo_locations)))))

(***************************************************************************)
(* ReportableChanges and UsableChanges.                                    *)
(***************************************************************************)
\* The merged array entries are the strings of their names.
ReportableChanges_addresses(v) ==
    IF IsNone(v.addresses) THEN Raise("TypeError")
    ELSE Ok(Some(SelectSeq(Val(v.addresses), LAMBDA n : ~Contains(n, "-"))))

ReportableChanges_address_ranges(v) ==
    IF IsNone(v.addresses) THEN Raise("TypeError")
    ELSE NormalizeRanges(SelectSeq(Val(v.addresses), LAMBDA n : Contains(n, "-")))

ReportableChanges_address_lists(v) ==
    IF IsNone(v.address_lists) THEN Raise("TypeError")
    ELSE Ok(Some(sorted(FullPaths(Val(v.address_lists)))))

\* ReportableChanges(params=...).to_return()
ReportableChanges_to_return(v) ==
    to_return(<<ReportableChanges_addresses(v), ReportableChanges_address_ranges(v),
                ReportableChanges_address_lists(v), Ok(v.description), Ok(v.fqdns),
                Ok(v.geo_locations)>>)

UsableChanges_addresses(v) ==
    IF IsNone(v.addresses) /\ IsNone(v.address_ranges) THEN None
    ELSE Some((IF ~IsNone(v.addresses) /\ Val(v.addresses) # <<>>
               THEN Val(v.addresses) ELSE <<>>)
              \o (IF ~IsNone(v.address_ranges) /\ Val(v.address_ranges) # <<>>
                  THEN Val(v.address_ranges) ELSE <<>>))

\* partition, name = parts
ListRefOf(parts) ==
    IF Len(parts) # 2 THEN Raise("ValueError")
    ELSE Ok([name |-> parts[2], partition |-> parts[1]])

\* x.split('/')[1:]
ListRef(x) == ListRefOf(Tail(split(x, "/")))

ListRefs(xs) == [i \in 1..Len(xs) |-> ListRef(xs[i])]

UsableChanges_address_lists(v) ==
    IF IsNone(v.address_lists) THEN Ok(None)
    ELSE ReturnList(Gather(ListRefs(Val(v.address_lists))))

\* UsableChanges(params=...).to_return()
UsableChanges_to_return(v) ==
    to_return(<<Ok(UsableChanges_addresses(v)), Ok(v.address_ranges),
                UsableChanges_address_lists(v), Ok(v.description), Ok(v.fqdns),
                Ok(v.geo_locations)>>)

\* the attributes that are not None, under their names on the wire
ApiParamsOf(v, lists) ==
    IF lists.err # "" THEN Raise(lists.err)
    ELSE Ok([addressLists |-> lists.val, addresses |-> UsableChanges_addresses(v),
             description |-> v.description, fqdns |-> v.fqdns,
             geo |-> v.geo_locations])

\* UsableChanges.api_params(): the attributes to send, or the exception
api_params(v) == ApiParamsOf(v, UsableChanges_address_lists(v))

(***************************************************************************)
(* Difference: the comparison of one field of want with have.  want.p is   *)
(* the result of the property of ModuleParameters, which may raise.        *)
(***************************************************************************)
\* DifferenceOf without the comparison with have: a field that is given is
\* always a change
DifferenceOf_Given(want, have) ==
    IF want.err # "" THEN want
    ELSE IF IsNone(want.val) THEN Ok(None)
    ELSE Ok(want.val)

\* the body the four comparing properties share
DifferenceOf(want, have) ==
    IF want.err # "" THEN want
    ELSE IF IsNone(want.val) THEN Ok(None)
    ELSE IF IsNone(have) THEN Ok(want.val)
    ELSE IF sorted(Val(want.val)) # sorted(Val(have)) THEN Ok(want.val)
    ELSE Ok(None)

Difference_addresses(w, h) ==
    DifferenceOf(ModuleParameters_addresses(w), ApiParameters_addresses(h))

Difference_address_lists(w, h) ==
    DifferenceOf(ModuleParameters_address_lists(w), ApiParameters_address_lists(h))

Difference_address_ranges(w, h) ==
    DifferenceOf(ModuleParameters_address_ranges(w), ApiParameters_address_ranges(h))

Difference_fqdns(w, h) ==
    DifferenceOf(ModuleParameters_fqdns(w), ApiParameters_fqdns(h))

\* Difference.__default
Difference_default(attr1, attr2) ==
    IF attr1.err # "" THEN attr1
    ELSE IF attr1.val # attr2 THEN Ok(attr1.val)
    ELSE Ok(None)

\* Difference.compare
compare(param, w, h) ==
    CASE param = "addresses"     -> Difference_addresses(w, h)
      [] param = "address_ranges" -> Difference_address_ranges(w, h)
      [] param = "address_lists" -> Difference_address_lists(w, h)
      [] param = "fqdns"         -> Difference_fqdns(w, h)
      [] param = "description"   -> Difference_default(Ok(w.description), h.description)
      [] param = "geo_locations" -> Difference_default(ModuleParameters_geo_locations(w),
                                                       ApiParameters_geo_locations(h))

\* ModuleManager._update_changed_options: the dictionary `changed` (a field
\* that is not a key is None), or the exception of the first comparison
\* that raises
ChangedOf(r) == IF r.err # "" THEN r ELSE Ok(ValuesOf(r.val))

\* _update_changed_options with the exception of a comparison swallowed: a
\* field whose comparison raises is left out of `changed`
update_changed_options_Lenient(w, h) ==
    ChangedOf(Gather([i \in 1..Len(updatables) |->
        IF compare(updatables[i], w, h).err # "" THEN Ok(None)
        ELSE compare(updatables[i], w, h)]))

update_changed_options(w, h) ==
    ChangedOf(Gather([i \in 1..Len(updatables) |-> compare(updatables[i], w, h)]))

\* should_update that takes every diff for a change
should_update_Always(changed) == TRUE

\* if changed: ...
should_update(changed) == changed # NoValues

(***************************************************************************)
(* The state: the device, and the invocations of the module against it.    *)
(***************************************************************************)
VARIABLES
    device,      \* the resource on the device: whether it exists, and its attributes
    params,      \* params[p]: module.params of invocation p
    check_mode,  \* check_mode[p]: module.check_mode
    pc,          \* pc[p]: where invocation p is
    have,        \* have[p]: the values of self.have
    changes,     \* changes[p]: the values of self.changes
    calls,       \* calls[p]: the calls invocation p has made on the device client
    result,      \* result[p]: the outcome of exec_module, its changed flag and report
    before,      \* before[p]: the device when invocation p started
    prev,        \* prev[p]: the invocation that had ended last when p started
    last,        \* the invocation that ended last, or 0
    fn,          \* the function applied on its own, and its arguments
    ret          \* what that function returned, once it has

vars == <<device, params, check_mode, pc, have, changes, calls, result, before,
          prev, last, fn, ret>>

Procs == {1, 2}

Absent == [exists |-> FALSE, attrs |-> NoAttrs]

NoResult == [outcome |-> "", changed |-> FALSE, report |-> NoValues]

Call(op, attrs) == [op |-> op, attrs |-> attrs]

\* the end of exec_module: the report and the changed flag are returned
Return(p, changed, chg) ==
    /\ pc' = [pc EXCEPT ![p] = "done"]
    /\ changes' = [changes EXCEPT ![p] = chg]
    /\ result' = [result EXCEPT ![p] =
           [outcome |-> "ok", changed |-> changed,
            report |-> ReportableChanges_to_return(UsableChanges_to_return(chg))]]
    /\ last' = p

\* an exception leaves exec_module
Fail(p, err) ==
    /\ pc' = [pc EXCEPT ![p] = "done"]
    /\ result' = [result EXCEPT ![p] =
           [outcome |-> err, changed |-> FALSE, report |-> NoValues]]
    /\ UNCHANGED changes
    /\ last' = p

Goto(p, label, chg) ==
    /\ pc' = [pc EXCEPT ![p] = label]
    /\ changes' = [changes EXCEPT ![p] = chg]
    /\ UNCHANGED <<result, last>>

\* ModuleManager(module=module, client=client); exec_module is entered
Start(p) ==
    /\ pc[p] \in {"idle", "done"}
    /\ \E cm \in BOOLEAN : check_mode' = [check_mode EXCEPT ![p] = cm]
    /\ pc' = [pc EXCEPT ![p] = "exec_module"]
    /\ have' = [have EXCEPT ![p] = NoValues]
    /\ changes' = [changes EXCEPT ![p] = NoValues]
    /\ calls' = [calls EXCEPT ![p] = <<>>]
    /\ result' = [result EXCEPT ![p] = NoResult]
    /\ before' = [before EXCEPT ![p] = device]
    /\ prev' = [prev EXCEPT ![p] = last]
    /\ UNCHANGED <<device, params, fn, ret, last>>

\* present(), exists() true: update() is entered
\* present(), exists() false: create() up to the call on the device
Present(p) ==
    /\ pc[p] = "exec_module"
    /\ params[p].state = "present"
    /\ calls' = [calls EXCEPT ![p] = Append(@, Call("exists", NoAttrs))]
    /\ IF device.exists
       THEN /\ Goto(p, "read_current_from_device", changes[p])
            /\ UNCHANGED have
       ELSE /\ have' = [have EXCEPT ![p] = NoValues]
            /\ \E diff \in {update_changed_options(params[p], NoValues)} :
                   IF diff.err # "" THEN Fail(p, diff.err)
                   ELSE IF check_mode[p] THEN Return(p, TRUE, diff.val)
                   ELSE Goto(p, "create_on_device", diff.val)
    /\ UNCHANGED <<device, params, fn, ret, check_mode, before, prev>>

\* absent() without the check-mode test of remove()
AbsentState_Unguarded(p) ==
    /\ pc[p] = "exec_module"
    /\ params[p].state = "absent"
    /\ calls' = [calls EXCEPT ![p] = Append(@, Call("exists", NoAttrs))]
    /\ IF ~device.exists THEN Return(p, FALSE, changes[p])
       ELSE Goto(p, "remove_from_device", changes[p])
    /\ UNCHANGED <<device, params, fn, ret, check_mode, have, before, prev>>

\* absent(), and remove() up to the call on the device
AbsentState(p) ==
    /\ pc[p] = "exec_module"
    /\ params[p].state = "absent"
    /\ calls' = [calls EXCEPT ![p] = Append(@, Call("exists", NoAttrs))]
    /\ IF ~device.exists THEN Return(p, FALSE, changes[p])
       ELSE IF check_mode[p] THEN Return(p, TRUE, changes[p])
       ELSE Goto(p, "remove_from_device", changes[p])
    /\ UNCHANGED <<device, params, fn, ret, check_mode, have, before, prev>>

\* update(): read_current_from_device(), should_update() and the check-mode test
ReadCurrent(p) ==
    /\ pc[p] = "read_current_from_device"
    /\ calls' = [calls EXCEPT ![p] = Append(@, Call("load", NoAttrs))]
    /\ IF ~device.exists
       THEN /\ Fail(p, DeviceError)
            /\ UNCHANGED have
       ELSE /\ have' = [have EXCEPT ![p] = ApiParameters(device.attrs)]
            /\ \E diff \in {update_changed_options(params[p],
                                                   ApiParameters(device.attrs))} :
                   IF diff.err # "" THEN Fail(p, diff.err)
                   ELSE IF ~should_update(diff.val) THEN Return(p, FALSE, changes[p])
                   ELSE IF check_mode[p] THEN Return(p, TRUE, diff.val)
                   ELSE Goto(p, "update_on_device", diff.val)
    /\ UNCHANGED <<device, params, fn, ret, check_mode, before, prev>>

\* update_on_device(): api_params() and the load of the resource
UpdateLoad(p) ==
    /\ pc[p] = "update_on_device"
    /\ \E sent \in {api_params(changes[p])} :
          IF sent.err # ""
          THEN /\ Fail(p, sent.err)
               /\ UNCHANGED calls
          ELSE /\ calls' = [calls EXCEPT ![p] = Append(@, Call("load", NoAttrs))]
               /\ IF device.exists THEN Goto(p, "modify", changes[p])
                  ELSE Fail(p, DeviceError)
    /\ UNCHANGED <<device, params, fn, ret, check_mode, have, before, prev>>

\* Modified with the attributes that are not sent dropped
Modified_Replaced(attrs, sent) == sent

\* the attributes of a resource after modify(**sent): the device stores what
\* it is sent and keeps the attributes it is not sent
Modified(attrs, sent) ==
    [a \in DOMAIN attrs |-> IF IsNone(sent[a]) THEN attrs[a] ELSE sent[a]]

\* update_on_device(): resource.modify(**params), and the end of update()
Modify(p) ==
    /\ pc[p] = "modify"
    /\ \E sent \in {api_params(changes[p]).val} :
          /\ calls' = [calls EXCEPT ![p] = Append(@, Call("modify", sent))]
          /\ IF device.exists
             THEN /\ device' = [device EXCEPT !.attrs = Modified(@, sent)]
                  /\ Return(p, TRUE, changes[p])
             ELSE /\ UNCHANGED device
                  /\ Fail(p, DeviceError)
    /\ UNCHANGED <<params, fn, ret, check_mode, have, before, prev>>

\* create_on_device(), and the end of create().  A resource of the name that
\* another invocation has created since the existence check is either
\* reported by the device as a conflict or replaced by what is sent.
CreateOnDevice(p) ==
    /\ pc[p] = "create_on_device"
    /\ \E sent \in {api_params(changes[p])} :
          IF sent.err # ""
          THEN /\ Fail(p, sent.err)
               /\ UNCHANGED <<calls, device>>
          ELSE /\ calls' = [calls EXCEPT ![p] = Append(@, Call("create", sent.val))]
               /\ \/ /\ device.exists
                     /\ UNCHANGED device
                     /\ Fail(p, DeviceError)
                  \/ /\ device' = [exists |-> TRUE, attrs |-> sent.val]
                     /\ Return(p, TRUE, changes[p])
    /\ UNCHANGED <<params, fn, ret, check_mode, have, before, prev>>

\* remove_from_device(): the load of the resource
RemoveLoad(p) ==
    /\ pc[p] = "remove_from_device"
    /\ calls' = [calls EXCEPT ![p] = Append(@, Call("load", NoAttrs))]
    /\ IF device.exists THEN Goto(p, "delete", changes[p])
       ELSE Fail(p, DeviceError)
    /\ UNCHANGED <<device, params, fn, ret, check_mode, have, before, prev>>

\* remove_from_device(): resource.delete().  The device answers the call and
\* either has removed the resource or still holds it.
Delete(p) ==
    /\ pc[p] = "delete"
    /\ calls' = [calls EXCEPT ![p] = Append(@, Call("delete", NoAttrs))]
    /\ IF device.exists
       THEN /\ \E removed \in BOOLEAN : device' = IF removed THEN Absent ELSE device
            /\ Goto(p, "remove_exists", changes[p])
       ELSE /\ UNCHANGED device
            /\ Fail(p, DeviceError)
    /\ UNCHANGED <<params, fn, ret, check_mode, have, before, prev>>

\* remove() without the test of the existence check after the delete
RemoveExists_Unchecked(p) ==
    /\ pc[p] = "remove_exists"
    /\ calls' = [calls EXCEPT ![p] = Append(@, Call("exists", NoAttrs))]
    /\ Return(p, TRUE, changes[p])
    /\ UNCHANGED <<device, params, fn, ret, check_mode, have, before, prev>>

\* remove(): the existence check after the delete
RemoveExists(p) ==
    /\ pc[p] = "remove_exists"
    /\ calls' = [calls EXCEPT ![p] = Append(@, Call("exists", NoAttrs))]
    /\ IF device.exists THEN Fail(p, DeletionFailed)
       ELSE Return(p, TRUE, changes[p])
    /\ UNCHANGED <<device, params, fn, ret, check_mode, have, before, prev>>

(***************************************************************************)
(* The arguments and the device states the model starts from.              *)
(***************************************************************************)
\* at most MaxSupplied of the six fields are given in the arguments
MaxSupplied == 2
\* at most MaxAttrs of the five attributes are set on a resource that exists
MaxAttrs == 1

Supplied(v) ==
    Cardinality({i \in 1..Len(updatables) : ~IsNone(v[updatables[i]])})

AttrsSet(a) ==
    Cardinality({i \in 1..Len(api_attributes) : ~IsNone(a[api_attributes[i]])})

ArgumentChoices ==
    [state         : {"present", "absent"},
     partition     : {"Common"},
     description   : {None, Some("d1")},
     addresses     : {None, Some(<<"2.2.2.2", "1.1.1.1">>), Some(<<"bogus">>)},
     address_ranges : {None, Some(<<"2.2.2.2-1.1.1.1">>), Some(<<"1.1.1.1-::1">>)},
     address_lists : {None, Some(<<"foo">>)},
     fqdns         : {None, Some(<<"good.example.com">>), Some(<<"-bad.example.com">>)},
     geo_locations : {None, Some(<<[country |-> "US", region |-> None]>>)}]

Arguments == {v \in ArgumentChoices : Supplied(v) <= MaxSupplied}

AttrChoices ==
    [addressLists : {None, Some(<<[name |-> "foo", partition |-> "Common"]>>)},
     addresses    : {None, Some(<<"1.1.1.1", "2.2.2.2">>),
                     Some(<<"1.1.1.1-2.2.2.2", "3.3.3.3">>)},
     description  : {None, Some("d0")},
     fqdns        : {None, Some(<<"good.example.com">>)},
     geo          : {None, Some(<<"DE">>)}]

Devices ==
    {Absent} \cup {[exists |-> TRUE, attrs |-> a] :
                     a \in {b \in AttrChoices : AttrsSet(b) <= MaxAttrs}}

\* no function is applied on its own
NoFn == [name |-> "", param |-> "", want |-> None, have |-> None,
         start |-> "", stop |-> "", country |-> "", region |-> None,
         host |-> "", entries |-> <<>>]

Init ==
    /\ device \in Devices
    /\ \E v \in Arguments : params = [p \in Procs |-> v]
    /\ check_mode = [p \in Procs |-> FALSE]
    /\ pc = [p \in Procs |-> "idle"]
    /\ have = [p \in Procs |-> NoValues]
    /\ changes = [p \in Procs |-> NoValues]
    /\ calls = [p \in Procs |-> <<>>]
    /\ result = [p \in Procs |-> NoResult]
    /\ before = [p \in Procs |-> Absent]
    /\ prev = [p \in Procs |-> 0]
    /\ last = 0
    /\ fn = NoFn
    /\ ret = None

\* no invocation is under way
Quiet == \A q \in Procs : pc[q] \in {"idle", "done"}

\* the invocation that follows invocation q
Following(q) == (q % Cardinality(Procs)) + 1

\* One invocation at a time: each starts after the one before it has ended.
Next ==
    \E p \in Procs :
        \/ Quiet /\ p = Following(last) /\ Start(p)
        \/ Present(p)
        \/ AbsentState(p)
        \/ ReadCurrent(p)
        \/ UpdateLoad(p)
        \/ Modify(p)
        \/ CreateOnDevice(p)
        \/ RemoveLoad(p)
        \/ Delete(p)
        \/ RemoveExists(p)

Spec == Init /\ [][Next]_vars


(***************************************************************************)
(* The functions of the module applied on their own, each to arguments     *)
(* drawn from a bounded set.                                               *)
(***************************************************************************)
\* the lists compared have at most MaxLen entries
MaxLen == 2

\* the fields that hold a collection
Collections == {"addresses", "address_ranges", "address_lists", "fqdns", "geo_locations"}

\* the entries a list of a field is made of, as the arguments give them
WantEntries(f) ==
    CASE f = "addresses"      -> <<"1.1.1.1", "2.2.2.2">>
      [] f = "address_ranges" -> <<"1.1.1.1-2.2.2.2", "3.3.3.3-4.4.4.4">>
      [] f = "address_lists"  -> <<"/Common/foo", "/Common/bar">>
      [] f = "fqdns"          -> <<"a.example.com", "b.example.com">>
      [] f = "geo_locations"  -> <<[country |-> "US", region |-> None],
                                   [country |-> "DE", region |-> None]>>

\* the same entries as the device gives them
HaveEntries(f) ==
    CASE f = "addresses"      -> <<"1.1.1.1", "2.2.2.2">>
      [] f = "address_ranges" -> <<"1.1.1.1-2.2.2.2", "3.3.3.3-4.4.4.4">>
      [] f = "address_lists"  -> <<[name |-> "foo", partition |-> "Common"],
                                   [name |-> "bar", partition |-> "Common"]>>
      [] f = "fqdns"          -> <<"a.example.com", "b.example.com">>
      [] f = "geo_locations"  -> <<"US", "DE">>

\* the attribute of the resource a field is read from
AttributeOf(f) ==
    CASE f = "address_lists"  -> "addressLists"
      [] f = "geo_locations"  -> "geo"
      [] f = "address_ranges" -> "addresses"
      [] OTHER                -> f

\* a list is None or up to MaxLen entries, each the first or the second of the
\* entries of its field, so that order and repetition both occur
Picks ==
    {None} \cup {Some(xs) : xs \in UNION {[1..n -> {1, 2}] : n \in 0..MaxLen}}

Picked(entries, pick) ==
    IF IsNone(pick) THEN None
    ELSE Some([i \in 1..Len(Val(pick)) |-> entries[Val(pick)[i]]])

\* arguments none of whose fields is given
NoArguments ==
    [state |-> "present", partition |-> "Common", description |-> None,
     addresses |-> None, address_ranges |-> None, address_lists |-> None,
     fqdns |-> None, geo_locations |-> None]

\* want and have of a comparison of field f
WantOf(f, pick) == [NoArguments EXCEPT ![f] = Picked(WantEntries(f), pick)]
AttrsOf(f, pick) == [NoAttrs EXCEPT ![AttributeOf(f)] = Picked(HaveEntries(f), pick)]

\* the ends of the ranges canonicalized: the order of the numbers and the
\* order of the strings differ for some of them
RangeEnds == {"1.1.1.1", "2.2.2.2", "9.0.0.1", "10.0.0.1", "::1", "::a"}

RangeArguments(start, stop) ==
    [NoArguments EXCEPT !.address_ranges = Some(<<start \o "-" \o stop>>)]

\* the countries and regions of the geo-locations canonicalized: codes, names
\* of the table, a name that is not in it, and regions blank and not
GeoCountries == {"US", "United States", "DE", "Germany", "Atlantis"}
GeoRegions == {None, Some(""), Some(" "), Some("WA")}

GeoArguments(country, region) ==
    [NoArguments EXCEPT
        !.geo_locations = Some(<<[country |-> country, region |-> region]>>)]

RECURSIVE Repeated(_, _)
\* the string c * n
Repeated(c, n) == IF n = 0 THEN "" ELSE c \o Repeated(c, n - 1)

\* a name of 255 characters and one of 256, all of whose labels are valid
Host255 ==
    Repeated("a", 63) \o "." \o Repeated("b", 63) \o "." \o Repeated("c", 63)
        \o "." \o Repeated("d", 63)
Host256 ==
    Repeated("a", 63) \o "." \o Repeated("b", 63) \o "." \o Repeated("c", 63)
        \o "." \o Repeated("d", 62) \o ".e"

\* the hostnames validated
Hosts ==
    {"good.example.com", "good.example.com.", "-bad.example.com",
     "bad-.example.com", "UPPER.Example.COM", "under_score.example.com",
     "", ".", "a..b", "a..", "example.com\n",
     Repeated("a", 63) \o ".com", Repeated("a", 64) \o ".com",
     Host255, Host255 \o ".", Host256}

\* the entries of the address arrays read from the device: a single address,
\* a range stored start first, one stored stop first, one with blanks around
\* it and one of mixed IP versions
DeviceEntries ==
    {"1.1.1.1", "1.1.1.1-2.2.2.2", "2.2.2.2-1.1.1.1", " 3.3.3.3-4.4.4.4 ",
     "1.1.1.1-::1"}

DeviceArrays == UNION {[1..n -> DeviceEntries] : n \in 0..MaxLen}

FnChoices ==
    {[NoFn EXCEPT !.name = "compare", !.param = f, !.want = w, !.have = h] :
        f \in Collections, w \in Picks, h \in Picks}
    \cup {[NoFn EXCEPT !.name = "address_ranges", !.start = a, !.stop = b] :
        a \in RangeEnds, b \in RangeEnds}
    \cup {[NoFn EXCEPT !.name = "geo_locations", !.country = c, !.region = r] :
        c \in GeoCountries, r \in GeoRegions}
    \cup {[NoFn EXCEPT !.name = "fqdns", !.host = h] : h \in Hosts}
    \cup {[NoFn EXCEPT !.name = "live_address_ranges", !.entries = es] :
        es \in DeviceArrays}

InitFn ==
    /\ device = Absent
    /\ params = [p \in Procs |-> NoArguments]
    /\ check_mode = [p \in Procs |-> FALSE]
    /\ pc = [p \in Procs |-> "idle"]
    /\ have = [p \in Procs |-> NoValues]
    /\ changes = [p \in Procs |-> NoValues]
    /\ calls = [p \in Procs |-> <<>>]
    /\ result = [p \in Procs |-> NoResult]
    /\ before = [p \in Procs |-> Absent]
    /\ prev = [p \in Procs |-> 0]
    /\ last = 0
    /\ fn \in FnChoices
    /\ ret = None

\* Difference(want, have).compare(param)
Compare ==
    /\ fn.name = "compare" /\ IsNone(ret)
    /\ ret' = Some(compare(fn.param, WantOf(fn.param, fn.want),
                           ApiParameters(AttrsOf(fn.param, fn.have))))
    /\ UNCHANGED <<device, params, check_mode, pc, have, changes, calls, result,
                   before, prev, last, fn>>

\* ModuleParameters(params=...).address_ranges
AddressRanges ==
    /\ fn.name = "address_ranges" /\ IsNone(ret)
    /\ ret' = Some(ModuleParameters_address_ranges(RangeArguments(fn.start, fn.stop)))
    /\ UNCHANGED <<device, params, check_mode, pc, have, changes, calls, result,
                   before, prev, last, fn>>

\* ModuleParameters(params=...).geo_locations
GeoLocations ==
    /\ fn.name = "geo_locations" /\ IsNone(ret)
    /\ ret' = Some(ModuleParameters_geo_locations(GeoArguments(fn.country, fn.region)))
    /\ UNCHANGED <<device, params, check_mode, pc, have, changes, calls, result,
                   before, prev, last, fn>>

\* ModuleParameters(params=...).fqdns
Fqdns ==
    /\ fn.name = "fqdns" /\ IsNone(ret)
    /\ ret' = Some(ModuleParameters_fqdns([NoArguments EXCEPT !.fqdns = Some(<<fn.host>>)]))
    /\ UNCHANGED <<device, params, check_mode, pc, have, changes, calls, result,
                   before, prev, last, fn>>

\* ApiParameters(params=resource.attrs).address_ranges
LiveAddressRanges ==
    /\ fn.name = "live_address_ranges" /\ IsNone(ret)
    /\ ret' = Some(Ok(ApiParameters_address_ranges(
                         ApiParameters([NoAttrs EXCEPT !.addresses = Some(fn.entries)]))))
    /\ UNCHANGED <<device, params, check_mode, pc, have, changes, calls, result,
                   before, prev, last, fn>>

NextFn == Compare \/ AddressRanges \/ GeoLocations \/ Fqdns \/ LiveAddressRanges

SpecFn == InitFn /\ [][NextFn]_vars

(***************************************************************************)
(* What the properties below speak of.                                     *)
(***************************************************************************)
\* the operations invocation p has called on the device client, in order
Ops(p) == [i \in 1..Len(calls[p]) |-> calls[p][i].op]

\* the create, modify and delete calls of invocation p
Mutations(p) == SelectSeq(calls[p], LAMBDA c : c.op \in {"create", "modify", "delete"})

\* invocation p has ended and nothing has happened since
Ended(p) == pc[p] = "done" /\ last = p /\ Quiet

\* invocation q has ended, and it ran right after invocation p
RanAfter(q, p) ==
    /\ p # q /\ pc[p] = "done" /\ pc[q] = "done"
    /\ last = q /\ prev[q] = p

\* the live canonical values of a resource with these attributes
Live(attrs) ==
    [addresses      |-> ApiParameters_addresses(ApiParameters(attrs)),
     address_ranges |-> ApiParameters_address_ranges(ApiParameters(attrs)),
     address_lists  |-> ApiParameters_address_lists(ApiParameters(attrs)),
     description    |-> attrs.description,
     fqdns          |-> ApiParameters_fqdns(ApiParameters(attrs)),
     geo_locations  |-> ApiParameters_geo_locations(ApiParameters(attrs))]

\* the result of canonicalizing field f of the arguments
Canonical(v, f) ==
    CASE f = "addresses"      -> ModuleParameters_addresses(v)
      [] f = "address_ranges" -> ModuleParameters_address_ranges(v)
      [] f = "address_lists"  -> ModuleParameters_address_lists(v)
      [] f = "description"    -> Ok(v.description)
      [] f = "fqdns"          -> ModuleParameters_fqdns(v)
      [] f = "geo_locations"  -> ModuleParameters_geo_locations(v)

FieldNames == {updatables[i] : i \in 1..Len(updatables)}

\* some supplied field of the arguments fails validation
Invalid(v) == \E f \in FieldNames : Canonical(v, f).err # ""

\* the desired canonical values of valid arguments
Desired(v) == [f \in FieldNames |-> Canonical(v, f).val]

\* the fields whose desired canonical value is given and differs from the
\* live one, with the desired value; None for every other field
Differing(v, attrs) ==
    [f \in FieldNames |->
        IF ~IsNone(Desired(v)[f]) /\ Desired(v)[f] # Live(attrs)[f]
        THEN Desired(v)[f] ELSE None]

\* the attributes sent carry the values of exactly the fields of chg that
\* are not None
Carries(sent, chg) ==
    /\ sent.description = chg.description
    /\ sent.fqdns = chg.fqdns
    /\ sent.geo = chg.geo_locations
    /\ IsNone(sent.addressLists) = IsNone(chg.address_lists)
    /\ ~IsNone(sent.addressLists) =>
           FullPaths(Val(sent.addressLists)) = Val(chg.address_lists)
    /\ IsNone(sent.addresses) = (IsNone(chg.addresses) /\ IsNone(chg.address_ranges))
    /\ ~IsNone(sent.addresses) =>
           /\ SelectSeq(Val(sent.addresses), LAMBDA n : ~Contains(n, "-"))
                 = IF IsNone(chg.addresses) THEN <<>> ELSE Val(chg.addresses)
           /\ SelectSeq(Val(sent.addresses), LAMBDA n : Contains(n, "-"))
                 = IF IsNone(chg.address_ranges) THEN <<>> ELSE Val(chg.address_ranges)

\* the single addresses and the ranges among the names of an attribute
Singles(names) == SelectSeq(names, LAMBDA n : ~Contains(n, "-"))
Ranges(names) == SelectSeq(names, LAMBDA n : Contains(n, "-"))

\* no element of xs is followed by a lesser one
Ascending(xs) == \A i \in 1..(Len(xs) - 1) : ~StrLess(xs[i + 1], xs[i])

(***************************************************************************)
(* The same valid arguments with state=present, applied again and again    *)
(* outside check mode: an invocation that has started runs to its end, and *)
(* one that has ended is followed by the next.                             *)
(***************************************************************************)
InitRepeated ==
    /\ Init
    /\ params[1].state = "present"
    /\ ~Invalid(params[1])

NextRepeated ==
    \E p \in Procs :
        \/ Quiet /\ p = Following(last) /\ Start(p) /\ ~check_mode'[p]
        \/ Present(p)
        \/ ReadCurrent(p)
        \/ UpdateLoad(p)
        \/ Modify(p)
        \/ CreateOnDevice(p)

\* where an invocation of NextRepeated can be
Positions ==
    {"idle", "exec_module", "read_current_from_device", "update_on_device",
     "modify", "create_on_device", "done"}

\* some invocation moves on.  Every step of NextRepeated is such a step, and a
\* step of NextRepeated is possible in every state, so that fairness for
\* Advance says that the invocations do not come to a halt.
Advance ==
    \E p \in Procs, l \in Positions : pc' = [pc EXCEPT ![p] = l] /\ l # pc[p]

SpecRepeated == InitRepeated /\ [][NextRepeated]_vars /\ WF_pc(Advance)

(***************************************************************************)
(* Two invocations with state=present on the same resource, their steps    *)
(* interleaved in any order, and the resource deleted from outside at any  *)
(* moment.                                                                 *)
(***************************************************************************)
\* the arguments of the invocations that run at the same time
ConcurrentArguments ==
    {[NoArguments EXCEPT !.description = Some("d1")],
     [NoArguments EXCEPT !.fqdns = Some(<<"good.example.com">>)],
     [NoArguments EXCEPT !.addresses = Some(<<"2.2.2.2", "1.1.1.1">>)]}

InitConcurrent ==
    /\ device \in Devices
    /\ params \in [Procs -> ConcurrentArguments]
    /\ check_mode = [p \in Procs |-> FALSE]
    /\ pc = [p \in Procs |-> "idle"]
    /\ have = [p \in Procs |-> NoValues]
    /\ changes = [p \in Procs |-> NoValues]
    /\ calls = [p \in Procs |-> <<>>]
    /\ result = [p \in Procs |-> NoResult]
    /\ before = [p \in Procs |-> Absent]
    /\ prev = [p \in Procs |-> 0]
    /\ last = 0
    /\ fn = NoFn
    /\ ret = None

\* the resource is deleted by someone else
ExternalDelete ==
    /\ device.exists
    /\ device' = Absent
    /\ UNCHANGED <<params, check_mode, pc, have, changes, calls, result, before,
                   prev, last, fn, ret>>

NextConcurrent ==
    \/ \E p \in Procs :
           \/ pc[p] = "idle" /\ Start(p)
           \/ Present(p)
           \/ ReadCurrent(p)
           \/ UpdateLoad(p)
           \/ Modify(p)
           \/ CreateOnDevice(p)
    \/ ExternalDelete

SpecConcurrent == InitConcurrent /\ [][NextConcurrent]_vars

\* what the device holds in a field: an attribute that is not set holds nothing
Held(o) == IF IsNone(o) THEN <<>> ELSE Val(o)

(***************************************************************************)
(* C1.  Reconciliation is idempotent: when an invocation with              *)
(* state=present has ended without error outside check mode, the           *)
(* invocation that follows it with the same arguments reports              *)
(* changed=false and makes no create, modify or delete call.               *)
(***************************************************************************)
C1_Idempotent ==
    \A p, q \in Procs :
        (/\ RanAfter(q, p)
         /\ params[p].state = "present" /\ params[q] = params[p]
         /\ ~check_mode[p] /\ result[p].outcome = "ok")
        => /\ result[q].outcome = "ok"
           /\ ~result[q].changed
           /\ Mutations(q) = <<>>

(***************************************************************************)
(* C2.  A field that is not supplied is left as it is on the device: after *)
(* an invocation with state=present on an existing resource, every field   *)
(* that is None in the arguments has the live canonical value it had       *)
(* before (an attribute that is not set counts as holding nothing).        *)
(***************************************************************************)
C2_UnsuppliedKept ==
    \A p \in Procs :
        (/\ Ended(p) /\ params[p].state = "present" /\ before[p].exists)
        => \A f \in FieldNames :
               IsNone(params[p][f]) =>
                   Held(Live(device.attrs)[f]) = Held(Live(before[p].attrs)[f])

(***************************************************************************)
(* C3.  With state=present on an existing resource and valid arguments,    *)
(* the invocation loads the live state and makes one modify call that      *)
(* carries the desired values of exactly the fields whose desired          *)
(* canonical value differs from the live one; when no field differs it     *)
(* makes no modify call and reports changed=false.                         *)
(***************************************************************************)
C3_ExactlyChanged ==
    \A p \in Procs :
        (/\ pc[p] = "done" /\ params[p].state = "present" /\ before[p].exists
         /\ ~check_mode[p] /\ ~Invalid(params[p]))
        => /\ result[p].outcome = "ok"
           /\ IF Differing(params[p], before[p].attrs) = [f \in FieldNames |-> None]
              THEN /\ Ops(p) = <<"exists", "load">>
                   /\ ~result[p].changed
              ELSE /\ Ops(p) = <<"exists", "load", "load", "modify">>
                   /\ Carries(calls[p][4].attrs, Differing(params[p], before[p].attrs))
                   /\ result[p].changed

\* a modify call was made for some but not all of the supplied fields
C3_Witness ==
    \E p \in Procs :
        /\ pc[p] = "done" /\ params[p].state = "present" /\ before[p].exists
        /\ ~check_mode[p] /\ ~Invalid(params[p])
        /\ Len(calls[p]) = 4 /\ calls[p][4].op = "modify"
        /\ \E f, g \in FieldNames :
              /\ ~IsNone(params[p][f]) /\ IsNone(Differing(params[p], before[p].attrs)[f])
              /\ ~IsNone(Differing(params[p], before[p].attrs)[g])

(***************************************************************************)
(* C4.  With state=present, valid arguments and the existence check        *)
(* reporting absent, the invocation makes the existence check and then     *)
(* exactly one create call, and no load, modify or delete call; the create *)
(* carries the sorted canonical values of all the supplied fields, and     *)
(* changed=true is reported.                                               *)
(***************************************************************************)
C4_Create ==
    \A p \in Procs :
        (/\ pc[p] = "done" /\ params[p].state = "present" /\ ~before[p].exists
         /\ ~check_mode[p] /\ ~Invalid(params[p]))
        => /\ result[p].outcome = "ok"
           /\ result[p].changed
           /\ Ops(p) = <<"exists", "create">>
           /\ Carries(calls[p][2].attrs, Desired(params[p]))
           /\ \A a \in {"addresses", "fqdns", "geo"} :
                  ~IsNone(calls[p][2].attrs[a]) =>
                      /\ Ascending(Singles(Val(calls[p][2].attrs[a])))
                      /\ Ascending(Ranges(Val(calls[p][2].attrs[a])))

\* a resource was created from unsorted addresses and a range given stop first
C4_Witness ==
    \E p \in Procs :
        /\ pc[p] = "done" /\ ~before[p].exists /\ result[p].changed
        /\ params[p].addresses = Some(<<"2.2.2.2", "1.1.1.1">>)
        /\ params[p].address_ranges = Some(<<"2.2.2.2-1.1.1.1">>)
        /\ Ops(p) = <<"exists", "create">>
        /\ calls[p][2].attrs.addresses = Some(<<"1.1.1.1", "2.2.2.2", "1.1.1.1-2.2.2.2">>)

(***************************************************************************)
(* C5.  With state=absent outside check mode and the existence check       *)
(* reporting present, the invocation loads the resource, deletes it and    *)
(* checks existence again; if the resource is still there the invocation   *)
(* fails with the deletion-failed error and does not report changed=true,  *)
(* and it reports changed=true only when the resource is gone.             *)
(***************************************************************************)
C5_Remove ==
    \A p \in Procs :
        (/\ Ended(p) /\ params[p].state = "absent" /\ before[p].exists
         /\ ~check_mode[p])
        => /\ Ops(p) = <<"exists", "load", "delete", "exists">>
           /\ device.exists => result[p].outcome = DeletionFailed /\ ~result[p].changed
           /\ ~device.exists => result[p].outcome = "ok" /\ result[p].changed

\* a delete that left the resource in place
C5_Witness ==
    \E p \in Procs :
        /\ Ended(p) /\ params[p].state = "absent" /\ before[p].exists
        /\ ~check_mode[p] /\ device.exists
        /\ result[p].outcome = DeletionFailed

(***************************************************************************)
(* C6.  Check mode decides as a normal run does and changes nothing: an    *)
(* invocation in check mode makes no create, modify or delete call and     *)
(* leaves the device as it was; and the normal invocation that follows it  *)
(* with the same arguments, from the same device state, ends with the same *)
(* outcome and changed flag, unless its delete fails.                      *)
(***************************************************************************)
C6_CheckMode ==
    /\ \A p \in Procs :
           (pc[p] = "done" /\ check_mode[p]) =>
               /\ Mutations(p) = <<>>
               /\ Ended(p) => device = before[p]
    /\ \A p, q \in Procs :
           (/\ RanAfter(q, p) /\ check_mode[p] /\ ~check_mode[q]
            /\ params[q] = params[p] /\ before[q] = before[p]
            /\ result[q].outcome # DeletionFailed)
           => /\ result[q].outcome = result[p].outcome
              /\ result[q].changed = result[p].changed

\* a check-mode run that reported a change, followed by the normal run that made it
C6_Witness ==
    \E p, q \in Procs :
        /\ RanAfter(q, p) /\ check_mode[p] /\ ~check_mode[q]
        /\ before[q] = before[p] /\ before[p].exists
        /\ params[p].state = "present"
        /\ result[p].changed /\ result[q].changed
        /\ Mutations(p) = <<>> /\ Mutations(q) # <<>>

(***************************************************************************)
(* C7 as stated.  Arguments with a field that fails validation end the     *)
(* invocation in an error before any call on the device, for either        *)
(* target state.                                                           *)
(***************************************************************************)
C7_BeforeAnyCall ==
    \A p \in Procs :
        (pc[p] = "done" /\ Invalid(params[p]))
        => /\ result[p].outcome \notin {"", "ok"}
           /\ calls[p] = <<>>

\* the fields of the arguments that fail validation, by their place in updatables
InvalidAt(v) == {i \in 1..Len(updatables) : Canonical(v, updatables[i]).err # ""}

\* the least number of a non-empty set of numbers
Least(S) == CHOOSE i \in S : \A j \in S : i <= j

\* the error of the first field, in the order of updatables, that fails validation
FirstInvalid(v) == Canonical(v, updatables[Least(InvalidAt(v))]).err

(***************************************************************************)
(* C7 as amended.  With state=present, arguments with an invalid address,  *)
(* a range of mixed IP versions or an invalid hostname end the invocation  *)
(* in that validation error after the existence check (and, when the       *)
(* resource exists, the load of the live state) and before any create,     *)
(* modify or delete call.  With state=absent the fields are not            *)
(* canonicalized and the invocation ends as it does for valid arguments.   *)
(***************************************************************************)
C7_BeforeAnyMutation ==
    \A p \in Procs :
        (pc[p] = "done" /\ Invalid(params[p]))
        => IF params[p].state = "present"
           THEN /\ result[p].outcome = FirstInvalid(params[p])
                /\ ~result[p].changed
                /\ Mutations(p) = <<>>
                /\ Ops(p) = IF before[p].exists THEN <<"exists", "load">>
                            ELSE <<"exists">>
           ELSE /\ result[p].outcome \in {"ok", DeletionFailed}
                /\ Ops(p)[1] = "exists"

\* an invalid hostname stopped an update after the load of the live state
C7_Witness ==
    \E p \in Procs :
        /\ pc[p] = "done" /\ params[p].state = "present" /\ before[p].exists
        /\ params[p].fqdns = Some(<<"-bad.example.com">>)
        /\ result[p].outcome = InvalidHostname
        /\ Ops(p) = <<"exists", "load">>

(***************************************************************************)
(* C8.  The report of an invocation holds, for every field of the          *)
(* change-set, the new canonical value of the field.                       *)
(***************************************************************************)
C8_ReportsChanges ==
    \A p \in Procs :
        (pc[p] = "done" /\ result[p].outcome = "ok")
        => \A f \in FieldNames :
               ~IsNone(changes[p][f]) => result[p].report[f] = changes[p][f]

\* the entries of a list, as a set
Elements(xs) == {xs[i] : i \in 1..Len(xs)}

\* the change of a field by the rule of the sets: nothing when the desired
\* value is absent, the desired value when the live one is absent, and
\* otherwise the desired value exactly when the two differ as sets
ChangeBySets(want, live) ==
    IF IsNone(want) THEN None
    ELSE IF IsNone(live) THEN want
    ELSE IF Elements(Val(want)) # Elements(Val(live)) THEN want
    ELSE None

(***************************************************************************)
(* C9.  For each collection field, compare returns no change when the      *)
(* desired value is absent, the whole desired value when the live value    *)
(* is absent, and otherwise the whole desired value if and only if the     *)
(* desired and the live value differ as sets: the order of the entries and *)
(* how often an entry is repeated make no difference.                      *)
(***************************************************************************)
C9_SetEquality ==
    (fn.name = "compare" /\ ~IsNone(ret))
    => Val(ret) = Ok(ChangeBySets(
                        Canonical(WantOf(fn.param, fn.want), fn.param).val,
                        Live(AttrsOf(fn.param, fn.have))[fn.param]))

\* the two ends of a canonical range, parsed
EndsOf(range) == [i \in 1..Len(split(range, "-")) |-> IPAddress(split(range, "-")[i])]

\* the ends are two addresses of one version, the first not above the second
InOrder(ends) ==
    /\ Len(ends) = 2
    /\ ends[1].ok /\ ends[2].ok
    /\ ends[1].version = ends[2].version
    /\ ~WordsLess(ends[2].words, ends[1].words)

(***************************************************************************)
(* C10.  A canonical address range is start-stop with start <= stop by the *)
(* numbers of the addresses, whatever the order the ends were given in:    *)
(* the range given with its ends swapped canonicalizes to the same string, *)
(* and a range whose ends are of different IP versions is rejected with    *)
(* the validation error and not stored.                                    *)
(***************************************************************************)
C10_RangeOrdered ==
    (fn.name = "address_ranges" /\ ~IsNone(ret))
    => IF IPAddress(fn.start).version # IPAddress(fn.stop).version
       THEN Val(ret) = Raise(MixedIPVersion)
       ELSE /\ Val(ret).err = ""
            /\ Len(Val(Val(ret).val)) = 1
            /\ InOrder(EndsOf(Val(Val(ret).val)[1]))
            /\ Elements(EndsOf(Val(Val(ret).val)[1]))
                   = {IPAddress(fn.start), IPAddress(fn.stop)}
            /\ Val(ret) = ModuleParameters_address_ranges(
                              RangeArguments(fn.stop, fn.start))

\* 10.0.0.1-9.0.0.1 was canonicalized: the ends are swapped, though the
\* string "10.0.0.1" sorts before "9.0.0.1"
C10_Witness ==
    /\ fn.name = "address_ranges"
    /\ fn.start = "10.0.0.1" /\ fn.stop = "9.0.0.1"
    /\ ret = Some(Ok(Some(<<"9.0.0.1-10.0.0.1">>)))

\* the names of the country table
CountryNames == {country_iso_map[i][1] : i \in 1..Len(country_iso_map)}

\* the code of a country given by its code or by a name of the table
CodeOf(country) ==
    IF country \in CountryNames
    THEN country_iso_map[CHOOSE i \in 1..Len(country_iso_map) :
                             country_iso_map[i][1] = country][2]
    ELSE country

\* the geo entry of a country code and a region: the region is left out when blank
GeoEntry(code, region) ==
    IF ~IsNone(region) /\ strip(Val(region)) # ""
    THEN code \o ":" \o Val(region) ELSE code

(***************************************************************************)
(* C11.  A country given as a 2-letter code or as a name of the country    *)
(* table canonicalizes to the geo entry of its code ("US" for "US" and for *)
(* "United States", "US:REGION" with a region that is not blank), and the  *)
(* comparison of that desired entry with a live entry holding the code     *)
(* reports no change.                                                      *)
(***************************************************************************)
C11_CountryResolved ==
    (/\ fn.name = "geo_locations" /\ ~IsNone(ret)
     /\ fn.country \in CountryNames \cup choices_iso_codes)
    => /\ Val(ret) = Ok(Some(<<GeoEntry(CodeOf(fn.country), fn.region)>>))
       /\ compare("geo_locations", GeoArguments(fn.country, fn.region),
                  ApiParameters([NoAttrs EXCEPT
                      !.geo = Some(<<GeoEntry(CodeOf(fn.country), fn.region)>>)]))
             = Ok(None)

\* a name without its trailing dot, if it has one
WithoutTrailingDot(host) ==
    IF Len(host) > 0 /\ CharAt(host, Len(host)) = "."
    THEN SubSeq(host, 1, Len(host) - 1) ELSE host

\* 1 to 63 letters, digits or hyphens, with no hyphen at either end
GoodLabel(label) ==
    /\ Len(label) \in 1..63
    /\ \A i \in 1..Len(label) : IsLDH(CharAt(label, i))
    /\ CharAt(label, 1) # "-"
    /\ CharAt(label, Len(label)) # "-"

GoodLabels(labels) == \A i \in 1..Len(labels) : GoodLabel(labels[i])

\* the rule of acceptance of a hostname, as stated
Acceptable(host) ==
    /\ Len(WithoutTrailingDot(host)) <= 255
    /\ GoodLabels(split(WithoutTrailingDot(host), "."))

(***************************************************************************)
(* C12.  An fqdns entry is accepted if and only if, its trailing dot       *)
(* stripped, it is at most 255 characters long and each of its labels is   *)
(* 1 to 63 letters, digits or hyphens with no hyphen at either end;        *)
(* otherwise canonicalization fails with the invalid-hostname error.       *)
(***************************************************************************)
C12_HostnameRule ==
    (fn.name = "fqdns" /\ ~IsNone(ret))
    => Val(ret) = IF Acceptable(fn.host) THEN Ok(Some(<<fn.host>>))
                  ELSE Raise(InvalidHostname)

(***************************************************************************)
(* C13.  The live address_ranges of a device address array is what the     *)
(* canonicalizer of the desired ranges makes of the entries of the array   *)
(* that contain the separator (a range stored stop-start appears as        *)
(* start-stop, a range of mixed IP versions raises the validation error),  *)
(* and the same ranges as desired state compare equal to it: no change.    *)
(***************************************************************************)
C13_LiveRangesNormalized ==
    (fn.name = "live_address_ranges" /\ ~IsNone(ret))
    => /\ Val(ret) = NormalizeRanges(Ranges(fn.entries))
       /\ Val(ret).err = "" =>
              compare("address_ranges",
                      [NoArguments EXCEPT !.address_ranges = Some(Ranges(fn.entries))],
                      ApiParameters([NoAttrs EXCEPT !.addresses = Some(fn.entries)]))
                 = Ok(None)

\* the device holds the desired value of every supplied field, and no
\* invocation that has ended reports a change
Settled ==
    /\ device.exists
    /\ \A f \in FieldNames :
           ~IsNone(params[1][f]) => Live(device.attrs)[f] = Desired(params[1])[f]
    /\ \A p \in Procs : pc[p] = "done" => ~result[p].changed

(***************************************************************************)
(* C14.  Reconciliation converges: with valid arguments with state=present *)
(* and invocations repeated outside check mode, the device eventually      *)
(* holds the desired value of every supplied field for good and every      *)
(* later invocation reports changed=false.                                 *)
(***************************************************************************)
C14_Converges == <>[]Settled

(***************************************************************************)
(* C15.  Outside check mode, an invocation that ends without error makes   *)
(* at most one create, modify or delete call, and reports changed=true     *)
(* exactly when it made one: state=absent on a resource that does not      *)
(* exist makes none, and so does an update with no field to change.        *)
(***************************************************************************)
C15_OneMutation ==
    \A p \in Procs :
        (pc[p] = "done" /\ ~check_mode[p] /\ result[p].outcome = "ok")
        => /\ Len(Mutations(p)) <= 1
           /\ result[p].changed <=> Len(Mutations(p)) = 1
           /\ (params[p].state = "absent" /\ ~before[p].exists)
                  => Mutations(p) = <<>>
           /\ (/\ params[p].state = "present" /\ before[p].exists
               /\ Differing(params[p], before[p].attrs) = [f \in FieldNames |-> None])
                  => Mutations(p) = <<>>

\* an update that found nothing to change: no mutating call, changed=false
C15_Witness ==
    \E p \in Procs :
        /\ pc[p] = "done" /\ ~check_mode[p] /\ result[p].outcome = "ok"
        /\ params[p].state = "present" /\ before[p].exists
        /\ params[p].fqdns = Some(<<"good.example.com">>)
        /\ Mutations(p) = <<>> /\ ~result[p].changed

\* the device changes in this step by what call c sends it: a create stores
\* the attributes sent, a modify stores the attributes sent and keeps the others
Stores(c) ==
    \/ /\ c.op = "create"
       /\ device' = [exists |-> TRUE, attrs |-> c.attrs]
    \/ /\ c.op = "modify"
       /\ device.exists /\ device'.exists
       /\ \A a \in DOMAIN c.attrs :
              device'.attrs[a] = IF IsNone(c.attrs[a]) THEN device.attrs[a]
                                 ELSE c.attrs[a]

\* the device changes in this step by the call an invocation makes in it, or
\* by the delete from outside
Written ==
    \/ \E p \in Procs :
           /\ Len(calls'[p]) = Len(calls[p]) + 1
           /\ \A q \in Procs \ {p} : calls'[q] = calls[q]
           /\ Stores(calls'[p][Len(calls'[p])])
    \/ device' = Absent /\ calls' = calls

C16_DeletedBetween ==
    \E p \in Procs :
        /\ pc[p] = "done" /\ result[p].outcome = DeviceError
        /\ Ops(p) = <<"exists", "load">>
        /\ ~device.exists

====
